---- MODULE Spec2Model ----
(***************************************************************************)
(* Model of submission-random/run.py: Evaluator.predict(), a generator     *)
(* that scans a document with the regular expression \w+ and, for every    *)
(* match, draws a category from ["Q", "A", "O"] and yields                 *)
(* (start, end, category) when the draw is "Q" or "A".                     *)
(*                                                                         *)
(* A document is a sequence of one-character strings.  Offsets are         *)
(* 0-based as in Python: the character at offset i is text[i + 1].         *)
(* Two generator objects (two calls of predict) are modelled; the caller   *)
(* may advance either of them, in any order.                               *)
(***************************************************************************)
EXTENDS Integers, Sequences, FiniteSets

VARIABLES text, pc, pos, match, category, out, draws, toks

vars == <<text, pc, pos, match, category, out, draws, toks>>

(* Largest length of the generated documents. *)
MaxLen == 3

(* The two calls of predict() that are in progress. *)
Passes == {1, 2}

(***************************************************************************)
(* Characters and the class \w (re.UNICODE on str: letters, digits and     *)
(* the underscore).                                                        *)
(***************************************************************************)
Letters ==
    {"a", "b", "c", "d", "e", "f", "g", "h", "i", "j", "k", "l", "m",
     "n", "o", "p", "q", "r", "s", "t", "u", "v", "w", "x", "y", "z",
     "A", "B", "C", "D", "E", "F", "G", "H", "I", "J", "K", "L", "M",
     "N", "O", "P", "Q", "R", "S", "T", "U", "V", "W", "X", "Y", "Z"}

Digits == {"0", "1", "2", "3", "4", "5", "6", "7", "8", "9"}

IsWord(c) == c \in Letters \cup Digits \cup {"_"}

(* Characters the generated documents are built from. *)
Alphabet == {"a", " "}

(* Further documents, with digits, underscores and punctuation. *)
SampleDocs ==
    {<<"7", "?", "_", "x">>, <<"?", "!">>,
     <<"Q", "1", ".", "A", "_", " ", "z">>}

Docs == UNION {[1..n -> Alphabet] : n \in 0..MaxLen} \cup SampleDocs

(* The document "Is sky blue? Yes." *)
ScenarioDoc ==
    <<"I", "s", " ", "s", "k", "y", " ", "b", "l", "u", "e", "?", " ",
      "Y", "e", "s", ".">>

(***************************************************************************)
(* The regular expression \w+ and its scanner (re.finditer).               *)
(***************************************************************************)
None == <<>>

(* Variant: a lazy quantifier (\w+?), which stops after one character. *)
MatchEndLazy(t, j) ==
    IF j < Len(t) /\ IsWord(t[j + 1]) THEN j + 1 ELSE j

(* The greedy quantifier: the offset where a run of \w starting at j ends. *)
RECURSIVE MatchEnd(_, _)
MatchEnd(t, j) ==
    IF j < Len(t) /\ IsWord(t[j + 1]) THEN MatchEnd(t, j + 1) ELSE j

(* Variant: the pattern \w*, which also matches the empty string. *)
MatchAtStar(t, i) == <<i, MatchEnd(t, i)>>

(* An attempt to match \w+ at offset i: at least one character is needed. *)
MatchAt(t, i) ==
    LET j == MatchEnd(t, i) IN IF j > i THEN <<i, j>> ELSE None

(* The leftmost match at or after offset i, or None. *)
RECURSIVE Search(_, _)
Search(t, i) ==
    IF i > Len(t) THEN None
    ELSE LET m == MatchAt(t, i)
         IN  IF m # None THEN m ELSE Search(t, i + 1)

(* Variant: overlapping matches, the scanner resumes one past the start. *)
NextPosOverlap(m) == m[1] + 1

(* After a non-empty match the scanner resumes at the match's end. *)
NextPos(m) == m[2]

(* list(regex.finditer(text)): every match from offset i on, in order. *)
RECURSIVE FindAll(_, _)
FindAll(t, i) ==
    LET m == Search(t, i)
    IN  IF m = None THEN <<>> ELSE <<m>> \o FindAll(t, NextPos(m))

(* Variant: 1-based offsets. *)
SpanOneBased(m) == <<m[1] + 1, m[2] + 1>>

(* match.span() *)
Span(m) == <<m[1], m[2]>>

(* The list a draw is made from. *)
Categories == {"Q", "A", "O"}

(* Variant: every category passes the test. *)
EmitsAny(c) == c \in {"Q", "A", "O"}

(* Variant: only questions pass the test. *)
EmitsQuestionOnly(c) == c = "Q"

(* category in ("Q", "A") *)
Emits(c) == c \in {"Q", "A"}

(* Variant: an inclusive end offset. *)
YieldedInclusive(m, c) == <<m[1], m[2] - 1, c>>

(* Variant: (start, length, category). *)
YieldedLength(m, c) == <<m[1], m[2] - m[1], c>>

(* The tuple predict() yields for match m and category c. *)
Yielded(m, c) == <<Span(m)[1], Span(m)[2], c>>

(* Variant: the match is kept in one place shared by the calls. *)
MatchShared(p) == match[CHOOSE q \in Passes : match[q] # None]

(* The loop variable match of call p. *)
Match(p) == match[p]

(* Variant: the category is kept in one place shared by the calls. *)
CategoryShared(p) == category[1]

(* The local variable category of call p. *)
Category(p) == category[p]

(***************************************************************************)
(* The generator: one action per step of the loop body.                    *)
(***************************************************************************)
Fresh ==
    /\ pc = [p \in Passes |-> "next"]
    /\ pos = [p \in Passes |-> 0]
    /\ match = [p \in Passes |-> None]
    /\ category = [p \in Passes |-> "none"]
    /\ out = [p \in Passes |-> <<>>]
    /\ draws = [p \in Passes |-> <<>>]
    /\ toks = [p \in Passes |-> <<>>]

Init ==
    /\ text \in [Passes -> Docs]
    /\ Fresh

InitScenario ==
    /\ text = [p \in Passes |-> ScenarioDoc]
    /\ Fresh

(* for match in regex.finditer(text): the iterator produces a match. *)
NextMatch(p) ==
    /\ pc[p] = "next"
    /\ Search(text[p], pos[p]) # None
    /\ LET m == Search(text[p], pos[p])
       IN  /\ match' = [match EXCEPT ![p] = m]
           /\ pos' = [pos EXCEPT ![p] = NextPos(m)]
           /\ toks' = [toks EXCEPT ![p] = Append(@, m)]
    /\ pc' = [pc EXCEPT ![p] = "choose"]
    /\ UNCHANGED <<text, category, out, draws>>

(* for match in regex.finditer(text): the iterator is exhausted. *)
Exhausted(p) ==
    /\ pc[p] = "next"
    /\ Search(text[p], pos[p]) = None
    /\ pc' = [pc EXCEPT ![p] = "done"]
    /\ UNCHANGED <<text, pos, match, category, out, draws, toks>>

(* category = choice(["Q", "A", "O"]) *)
Choose(p) ==
    /\ pc[p] = "choose"
    /\ \E c \in Categories :
          /\ category' = [category EXCEPT ![p] = c]
          /\ draws' = [draws EXCEPT ![p] = Append(@, c)]
    /\ pc' = [pc EXCEPT ![p] = "test"]
    /\ UNCHANGED <<text, pos, match, out, toks>>

(* if category in ("Q", "A"): a, b = match.span(); yield (a, b, category) *)
Yield(p) ==
    /\ pc[p] = "test"
    /\ Emits(Category(p))
    /\ out' = [out EXCEPT ![p] = Append(@, Yielded(Match(p), Category(p)))]
    /\ pc' = [pc EXCEPT ![p] = "next"]
    /\ UNCHANGED <<text, pos, match, category, draws, toks>>

(* if category in ("Q", "A"): false, the loop goes on to the next match. *)
Drop(p) ==
    /\ pc[p] = "test"
    /\ ~Emits(Category(p))
    /\ pc' = [pc EXCEPT ![p] = "next"]
    /\ UNCHANGED <<text, pos, match, category, out, draws, toks>>

Step(p) == NextMatch(p) \/ Exhausted(p) \/ Choose(p) \/ Yield(p) \/ Drop(p)

Next == \E p \in Passes : Step(p)

Spec == Init /\ [][Next]_vars

SpecScenario == InitScenario /\ [][Next]_vars

(***************************************************************************)
(* Vocabulary of the properties.                                           *)
(***************************************************************************)
(* The (start, end) pairs of a sequence of yielded triples. *)
Positions(o) == [i \in 1..Len(o) |-> <<o[i][1], o[i][2]>>]

(* s is a subsequence of t: s is t with some elements left out. *)
RECURSIVE IsSubseq(_, _)
IsSubseq(s, t) ==
    IF s = <<>> THEN TRUE
    ELSE IF t = <<>> THEN FALSE
    ELSE IF Head(s) = Head(t) THEN IsSubseq(Tail(s), Tail(t))
    ELSE IsSubseq(s, Tail(t))

(* The document has no word character (the empty document included). *)
NoWordChars(t) == \A i \in 1..Len(t) : t[i] \notin Letters \cup Digits \cup {"_"}

(* The tokens of call p for which the test of the draw has been made. *)
Processed(p) == IF pc[p] = "test" THEN Len(draws[p]) - 1 ELSE Len(draws[p])

(* What the first n spans of T give when the i-th draw alone decides the
   i-th span: kept with label d[i] when d[i] is "Q" or "A", else left out. *)
RECURSIVE Pointwise(_, _, _)
Pointwise(T, d, n) ==
    IF n = 0 THEN <<>>
    ELSE IF d[n] \in {"Q", "A"}
         THEN Append(Pointwise(T, d, n - 1), <<T[n][1], T[n][2], d[n]>>)
         ELSE Pointwise(T, d, n - 1)

ScenarioDraws == <<"Q", "O", "A", "O">>

(***************************************************************************)
(* C1 (as stated): on "Is sky blue? Yes." with the draws Question, Other,  *)
(* Answer, Other, predict() yields exactly [(0,2,"Q"), (13,16,"A")].       *)
(***************************************************************************)
C1_ScenarioAsStated ==
    \A p \in Passes :
        (pc[p] = "done" /\ draws[p] = ScenarioDraws)
            => out[p] = << <<0, 2, "Q">>, <<13, 16, "A">> >>

(***************************************************************************)
(* C1 (amended): on "Is sky blue? Yes." with the draws Question, Other,    *)
(* Answer, Other, predict() yields exactly [(0,2,"Q"), (7,11,"A")]: the    *)
(* third token is "blue", at offsets 7 to 11.                              *)
(***************************************************************************)
C1_Scenario ==
    \A p \in Passes :
        (pc[p] = "done" /\ draws[p] = ScenarioDraws)
            => out[p] = << <<0, 2, "Q">>, <<7, 11, "A">> >>

C1_Witness ==
    /\ text[1] = ScenarioDoc
    /\ pc[1] = "done"
    /\ draws[1] = ScenarioDraws
    /\ Len(toks[1]) = 4

(***************************************************************************)
(* C2: every yielded triple (start, end, category) satisfies               *)
(* 0 <= start < end <= length(document).                                   *)
(***************************************************************************)
C2_Coverage ==
    \A p \in Passes : \A i \in 1..Len(out[p]) :
        /\ 0 <= out[p][i][1]
        /\ out[p][i][1] < out[p][i][2]
        /\ out[p][i][2] <= Len(text[p])

C2_Witness ==
    \E p \in Passes :
        /\ Len(out[p]) >= 2
        /\ out[p][Len(out[p])][2] = Len(text[p])
        /\ out[p][1][1] = 0

(***************************************************************************)
(* C3: the (start, end) pairs yielded, in yield order, are a subsequence   *)
(* of the tokenizer's span list for the document.                          *)
(***************************************************************************)
C3_Subsequence ==
    \A p \in Passes :
        /\ IsSubseq(Positions(out[p]), FindAll(text[p], 0))
        /\ IsSubseq(Positions(out[p]), toks[p])

C3_Witness ==
    \E p \in Passes :
        /\ pc[p] = "done"
        /\ Len(toks[p]) = 2
        /\ Len(out[p]) = 1
        /\ Positions(out[p])[1] = toks[p][2]
        /\ toks[p][2][1] > 1

(***************************************************************************)
(* C4: the tokenizer's spans are exactly the maximal contiguous runs of    *)
(* word characters: only word characters inside a span, a non-word         *)
(* character (or the document's edge) on either side, and, once the scan   *)
(* is over, every word character in exactly one span.                      *)
(***************************************************************************)
C4_Fidelity ==
    \A p \in Passes :
        LET t == text[p]
            T == toks[p]
        IN  /\ \A i \in 1..Len(T) :
                  /\ 0 <= T[i][1] /\ T[i][1] < T[i][2] /\ T[i][2] <= Len(t)
                  /\ \A k \in T[i][1]..(T[i][2] - 1) : IsWord(t[k + 1])
                  /\ T[i][1] > 0 => ~IsWord(t[T[i][1]])
                  /\ T[i][2] < Len(t) => ~IsWord(t[T[i][2] + 1])
            /\ pc[p] = "done" =>
                  /\ T = FindAll(t, 0)
                  /\ \A k \in 0..(Len(t) - 1) :
                        IsWord(t[k + 1]) =>
                            Cardinality({i \in 1..Len(T) :
                                            T[i][1] <= k /\ k < T[i][2]}) = 1

C4_Witness ==
    \E p \in Passes :
        /\ pc[p] = "done"
        /\ Len(toks[p]) = 2
        /\ toks[p][2][2] - toks[p][2][1] >= 2
        /\ toks[p][2][2] = Len(text[p])
        /\ \E i \in 1..Len(text[p]) : text[p][i] = "_"

(***************************************************************************)
(* C5: a candidate span is yielded if and only if its draw is "Q" or "A",  *)
(* with that draw as its category; a span drawn "O" is not yielded, so no  *)
(* yielded category is "O".                                                *)
(***************************************************************************)
C5_EmitRule ==
    /\ [](\A p \in Passes : \A i \in 1..Len(out[p]) :
              out[p][i][3] \in {"Q", "A"})
    /\ [][\A p \in Passes :
              (pc[p] = "test" /\ pc'[p] # "test") =>
                  /\ category[p] = draws[p][Len(draws[p])]
                  /\ match[p] = toks[p][Len(toks[p])]
                  /\ IF category[p] \in {"Q", "A"}
                     THEN out'[p] = Append(out[p],
                              <<match[p][1], match[p][2], category[p]>>)
                     ELSE out'[p] = out[p]]_vars

C5_Witness ==
    \E p \in Passes :
        /\ pc[p] = "done"
        /\ draws[p] = <<"O", "A">>
        /\ Len(out[p]) = 1

(***************************************************************************)
(* C6: on an empty document or one without word characters, predict()     *)
(* ends having yielded nothing and having made no draw, on the first call  *)
(* and on a second call with the same document.                            *)
(***************************************************************************)
C6_EmptyInput ==
    \A p \in Passes :
        NoWordChars(text[p]) =>
            /\ pc[p] \in {"next", "done"}
            /\ out[p] = <<>>
            /\ draws[p] = <<>>
            /\ toks[p] = <<>>
            /\ pc[p] = "next" => ENABLED Exhausted(p)

C6_Witness ==
    /\ text[1] = text[2]
    /\ Len(text[1]) > 0
    /\ NoWordChars(text[1])
    /\ pc[1] = "done"
    /\ pc[2] = "done"

(***************************************************************************)
(* C7: two runs of predict() over the same document that receive the same  *)
(* draws yield the same triples, and the scans give the same spans.        *)
(***************************************************************************)
C7_Determinism ==
    \A p, q \in Passes :
        (text[p] = text[q] /\ pc[p] = "done" /\ pc[q] = "done") =>
            /\ toks[p] = toks[q]
            /\ draws[p] = draws[q] => out[p] = out[q]

C7_Witness ==
    /\ text[1] = text[2]
    /\ pc[1] = "done"
    /\ pc[2] = "done"
    /\ draws[1] = draws[2]
    /\ Len(out[1]) = 2
    /\ out[1][1][3] # out[1][2][3]

(***************************************************************************)
(* C8: two passes over two distinct documents whose steps interleave each  *)
(* give what they would give alone on their own draws: a pass's output is  *)
(* decided by its own document's spans and its own draws, and every pair   *)
(* it yields is a span of its own document.                                *)
(***************************************************************************)
C8_Independence ==
    text[1] # text[2] =>
        \A p \in Passes :
            LET T == FindAll(text[p], 0)
                own == {T[k] : k \in 1..Len(T)}
            IN  /\ Len(draws[p]) <= Len(T)
                /\ out[p] = Pointwise(T, draws[p], Processed(p))
                /\ \A i \in 1..Len(out[p]) :
                      <<out[p][i][1], out[p][i][2]>> \in own

C8_Witness ==
    /\ text[1] # text[2]
    /\ pc[1] = "test"
    /\ pc[2] = "choose"
    /\ Len(out[1]) = 1
    /\ Len(out[2]) = 1
    /\ Positions(out[2])[1] \notin {toks[1][k] : k \in 1..Len(toks[1])}
    /\ Positions(out[1])[1] \notin {toks[2][k] : k \in 1..Len(toks[2])}

(***************************************************************************)
(* C9: the tokenizer's spans are strictly increasing and do not overlap,   *)
(* and so are the yielded spans: of two consecutive ones, the first ends   *)
(* before the second starts.                                               *)
(***************************************************************************)
C9_Increasing ==
    \A p \in Passes :
        /\ \A i \in 1..(Len(toks[p]) - 1) : toks[p][i][2] < toks[p][i + 1][1]
        /\ \A i \in 1..(Len(out[p]) - 1) : out[p][i][2] < out[p][i + 1][1]

C9_Witness ==
    \E p \in Passes :
        /\ Len(out[p]) = 2
        /\ out[p][1][2] + 1 = out[p][2][1]

(***************************************************************************)
(* C10: one draw is made per tokenizer span, dropped spans included, so a  *)
(* finished pass has made as many draws as there are tokens; the i-th      *)
(* token is yielded, and with which label, according to the i-th draw      *)
(* alone.                                                                  *)
(***************************************************************************)
C10_OneDrawPerToken ==
    \A p \in Passes :
        /\ Len(draws[p]) = Len(toks[p]) - (IF pc[p] = "choose" THEN 1 ELSE 0)
        /\ pc[p] = "done" => Len(draws[p]) = Len(FindAll(text[p], 0))
        /\ out[p] = Pointwise(toks[p], draws[p], Processed(p))

C10_Witness ==
    \E p \in Passes :
        /\ pc[p] = "done"
        /\ Len(draws[p]) = 2
        /\ draws[p][1] = "O"
        /\ draws[p][2] = "O"
        /\ out[p] = <<>>

====
